---- MODULE Spec2Model ----
(***************************************************************************)
(* Model of mockingjay/solver.py: the masked-acoustic-model data pipeline  *)
(* (Trainer.down_sample_frames, Trainer.process_MAM_data) and the control  *)
(* logic of the training loop (Trainer.set_model, Trainer.exec).           *)
(*                                                                         *)
(* Tensors are records [shape, data]: data is the row-major storage, so    *)
(* torch's view keeps data and replaces shape. Feature values are small    *)
(* integers standing for floats. mask_proportion is a rational <<n, d>>    *)
(* with d a power of two, for which the float product L*p is exact.        *)
(* The network, the optimizer and the learning-rate schedule are opaque:   *)
(* the model counts their calls. position_encoding is real-valued and      *)
(* feeds nothing but the network; it is not modelled.                      *)
(***************************************************************************)
EXTENDS Integers, Sequences, FiniteSets, TLC

\* ---------------------------------------------------------------- bounds
MaxBatch == 2      \* utterances in a batch
MaxRawTime == 7    \* raw frames of an utterance
MaxFeat == 2       \* feature_dim of a raw frame
MaxDr == 2         \* downsample_rate
MaxElems == 7      \* elements of a batch tensor
MaxGas == 4        \* gradient_accumulation_steps
MaxBatches == 9    \* len(self.dataloader)
MaxEpochs == 2     \* total_epochs

Vals == {0, 1}
MaskProps == {<<1, 4>>, <<1, 2>>, <<3, 4>>}
BatchDims == {3, 4}

\* ------------------------------------------------------- program constants
RequiredDims == 4        \* assert(len(spec.shape) == 4)
MaskTenths == 8          \* int(len(chosen_index)*0.8)
RandTenths == 1          \* int(len(chosen_index)*0.1)
InitialGlobalStep == 1   \* self.global_step = 1

VARIABLES
    \* Trainer configuration used by the pipeline
    dr,                 \* self.dr = model_config.downsample_rate
    mask_proportion,    \* self.mask_proportion, <<numerator, denominator>>
    x_sample_dim,       \* self.x_sample.shape[-1]
    \* one call of process_MAM_data
    spec,               \* the argument
    outcome,            \* "idle" | "returned" | the exception raised
    spec_stacked,       \* down_sample_frames(spec), returned as y
    spec_len,           \* valid length per utterance
    chosen_index,       \* per utterance
    spec_masked,        \* per utterance: the array x
    mask_label,         \* per utterance: the array l
    attn_mask,          \* per utterance: the vector a
    \* Trainer configuration used by exec
    gradient_accumulation_steps,
    total_epoch,
    num_batches,        \* len(self.dataloader)
    apex,
    verbose,            \* self.paras.verbose
    num_train_optimization_steps,
    \* exec
    pc,                 \* "loop" | "done" | "raised"
    epoch,
    step,
    global_step,
    accum,              \* backward() calls since the last zero_grad()
    opt_steps,          \* optimizer.step() calls: the version of the parameters
    zero_grads,         \* optimizer.zero_grad() calls
    lr_sets,            \* manual learning-rate overwrites (apex path)
    nan_msgs,           \* NaN messages printed
    epoch_updates,      \* update events in the current epoch
    epoch_start_gs,     \* global_step when the current epoch began
    last                \* what happened to the batch processed last

mamvars == <<dr, mask_proportion, x_sample_dim, spec, outcome, spec_stacked,
             spec_len, chosen_index, spec_masked, mask_label, attn_mask>>
cfgvars == <<gradient_accumulation_steps, total_epoch, num_batches, apex,
             verbose, num_train_optimization_steps>>
execvars == <<pc, epoch, step, global_step, accum, opt_steps, zero_grads,
              lr_sets, nan_msgs, epoch_updates, epoch_start_gs, last>>
vars == <<mamvars, cfgvars, execvars>>

\* ---------------------------------------------------------------- helpers
Min(a, b) == IF a < b THEN a ELSE b
Max(a, b) == IF a > b THEN a ELSE b
Range(s) == {s[q] : q \in 1..Len(s)}

RECURSIVE SumSeq(_)
SumSeq(s) == IF s = <<>> THEN 0 ELSE Head(s) + SumSeq(Tail(s))

NoTensor == [shape |-> <<>>, data |-> <<>>]

\* element (b, i, j), 0-based, of a 3-D tensor
At3(t, b, i, j) == t.data[(b * t.shape[2] + i) * t.shape[3] + j + 1]

\* t[:, :n, :]
SliceTime(t, n) ==
    LET B == t.shape[1]
        D == t.shape[3]
    IN [shape |-> <<B, n, D>>,
        data |-> [q \in 1..(B * n * D) |->
                    At3(t, (q - 1) \div (n * D), ((q - 1) % (n * D)) \div D, (q - 1) % D)]]

\* t.view(shape): the same storage under another shape
View(t, shape) == [shape |-> shape, data |-> t.data]

\* spec.squeeze(0)
Squeeze0(t) ==
    IF Len(t.shape) > 0 /\ t.shape[1] = 1
    THEN [shape |-> Tail(t.shape), data |-> t.data]
    ELSE t

\* variant: the left_over frames are dropped at the head, spec[:, left_over:, :]
down_sample_frames_DropHead(t, rate) ==
    LET left_over == t.shape[2] % rate
        n == t.shape[2] - left_over
        B == t.shape[1]
        D == t.shape[3]
        s == [shape |-> <<B, n, D>>,
              data |-> [q \in 1..(B * n * D) |->
                          At3(t, (q - 1) \div (n * D),
                                 left_over + ((q - 1) % (n * D)) \div D, (q - 1) % D)]]
    IN View(s, <<B, n \div rate, D * rate>>)

down_sample_frames(t, rate) ==
    LET left_over == t.shape[2] % rate
        s == IF left_over # 0 THEN SliceTime(t, t.shape[2] - left_over) ELSE t
    IN View(s, <<s.shape[1], s.shape[2] \div rate, s.shape[3] * rate>>)

\* frames of utterance b (0-based) as a 2-D array: a sequence of rows
Frames(st, b) ==
    [i \in 1..st.shape[2] |-> [j \in 1..st.shape[3] |-> At3(st, b, i - 1, j - 1)]]

\* np.sum(np.sum(spec_stacked, axis=-1) != 0, axis=-1)
SpecLen(st) ==
    [b \in 1..st.shape[1] |->
        Cardinality({i \in 1..st.shape[2] : SumSeq(Frames(st, b - 1)[i]) # 0})]

\* variant: the count rounded up past int()
MaskCount_Round(L, p) == (L * p[1]) \div p[2] + 1

\* int(spec_len[idx]*self.mask_proportion)
MaskCount(L, p) == (L * p[1]) \div p[2]

\* random.sample(range(L), k): the lists it can return
Samples(L, k) ==
    {c \in [1..k -> 0..(L - 1)] : \A a, b \in 1..k : a # b => c[a] # c[b]}

\* int(len(chosen_index)*0.8), int(len(chosen_index)*0.1); the float products
\* truncate to floor(8k/10) and floor(k/10)
SubMaskProportion(k) == (k * MaskTenths) \div 10
SubRandProportion(k) == (k * RandTenths) \div 10

\* s[a:b] for 0 <= a, 0 <= b
PySlice(s, a, b) == [q \in 1..Max(0, Min(b, Len(s)) - a) |-> s[a + q]]

MaskedIndex(chosen) == PySlice(chosen, 0, SubMaskProportion(Len(chosen)))

\* variant: chosen_index[sub_mask_proportion:]
RandomIndex_ToEnd(chosen) == PySlice(chosen, SubMaskProportion(Len(chosen)), Len(chosen))

\* chosen_index[sub_mask_proportion:sub_rand_proportion]
RandomIndex(chosen) ==
    PySlice(chosen, SubMaskProportion(Len(chosen)), SubRandProportion(Len(chosen)))

\* x[i] for a python index i that may be negative
PyRow(x, i) == IF i < 0 THEN x[Len(x) + i + 1] ELSE x[i + 1]

\* for r in random_index: x[r] = x[r-random.randint(1, spec_len[idx]-1)]
RECURSIVE ApplySwaps(_, _, _, _)
ApplySwaps(x, random_index, offs, q) ==
    IF q > Len(random_index) THEN x
    ELSE LET r == random_index[q]
         IN ApplySwaps([x EXCEPT ![r + 1] = PyRow(x, r - offs[q])],
                       random_index, offs, q + 1)

\* x[masked_index] = 0
ZeroRows(x, masked_index) ==
    [i \in 1..Len(x) |->
        IF (i - 1) \in Range(masked_index) THEN [j \in 1..Len(x[i]) |-> 0] ELSE x[i]]

\* x after lines 189-191, as an array with its shape
MaskFrames(frames, width, chosen, offs) ==
    [shape |-> <<Len(frames), width>>,
     rows |-> ZeroRows(ApplySwaps(frames, RandomIndex(chosen), offs, 1),
                       MaskedIndex(chosen))]

\* l = np.zeros((spec_len[idx], x_sample.shape[-1]*dr)); l[chosen_index] = 1
MaskLabel(L, width, chosen) ==
    [shape |-> <<L, width>>,
     rows |-> [i \in 1..L |-> [j \in 1..width |->
                  IF (i - 1) \in Range(chosen) THEN 1 ELSE 0]]]

\* variant: the storage of spec_stacked had x been frames.data.numpy() itself
TargetAfterMasking_Aliased(st, xs) ==
    [shape |-> st.shape,
     data |-> [q \in 1..Len(st.data) |->
                 LET z == q - 1
                     per == st.shape[2] * st.shape[3]
                 IN xs[(z \div per) + 1].rows[((z % per) \div st.shape[3]) + 1][(z % st.shape[3]) + 1]]]

\* x = copy.deepcopy(frames.data.numpy()): x shares no storage with spec_stacked,
\* which is returned as it was before the writes to x
TargetAfterMasking(st, xs) == st

\* a = np.ones([spec_len[idx]])
AttnMask(L) == [i \in 1..L |-> 1]

\* torch.ByteTensor / torch.FloatTensor of a list of arrays needs one shape
Stackable(arrays) ==
    \A a, b \in 1..Len(arrays) : arrays[a].shape = arrays[b].shape

\* variant: a 3-D batch passes as well
ShapeAccepted_Any(t) == Len(t.shape) \in BatchDims

\* assert(len(spec.shape) == 4)
ShapeAccepted(t) == Len(t.shape) = RequiredDims

\* the batches the data loader can hand over
LoaderBatches(D) ==
    UNION {UNION {UNION {
        {[shape |-> IF nd = 4 THEN <<1, B, T, D>> ELSE <<B, T, D>>, data |-> d] :
            d \in [1..(B * T * D) -> Vals]} :
        T \in {T \in 0..MaxRawTime : B * T * D <= MaxElems}} :
        B \in 1..MaxBatch} :
        nd \in BatchDims}

\* the random draws of one call: chosen_index and the swap offsets per utterance
Draws(lens, p) ==
    LET B == Len(lens)
        AllChosen == UNION {Samples(lens[b], MaskCount(lens[b], p)) : b \in 1..B}
        AllOffs(ch) ==
            UNION {[1..Len(RandomIndex(ch[b])) -> 1..(lens[b] - 1)] : b \in 1..B}
        Chosen == {ch \in [1..B -> AllChosen] :
                     \A b \in 1..B : ch[b] \in Samples(lens[b], MaskCount(lens[b], p))}
    IN UNION {{[chosen |-> ch, offs |-> of] :
                 of \in {o \in [1..B -> AllOffs(ch)] :
                           \A b \in 1..B :
                               o[b] \in [1..Len(RandomIndex(ch[b])) -> 1..(lens[b] - 1)]}} :
              ch \in Chosen}

\* --------------------------------------------------------- process_MAM_data
NoOutputs ==
    /\ spec_stacked' = NoTensor
    /\ spec_len' = <<>>
    /\ chosen_index' = <<>>
    /\ spec_masked' = <<>>
    /\ mask_label' = <<>>
    /\ attn_mask' = <<>>

\* one call; the function keeps no state from one call to the next
ProcessMAMData ==
    /\ outcome = "idle"
    /\ \E x \in LoaderBatches(x_sample_dim) :
        /\ spec' = x
        /\ IF ~ShapeAccepted(x)
           THEN outcome' = "AssertionError" /\ NoOutputs
           ELSE LET sq == Squeeze0(x)
                IN IF Len(sq.shape) # 3
                   THEN outcome' = "IndexError" /\ NoOutputs
                   ELSE LET st == down_sample_frames(sq, dr)
                            lens == SpecLen(st)
                            B == st.shape[1]
                        IN \E rnd \in Draws(lens, mask_proportion) :
                            /\ spec_len' = lens
                            /\ chosen_index' = rnd.chosen
                            /\ spec_masked' =
                                 [b \in 1..B |-> MaskFrames(Frames(st, b - 1), st.shape[3],
                                                            rnd.chosen[b], rnd.offs[b])]
                            /\ spec_stacked' = TargetAfterMasking(st, spec_masked')
                            /\ mask_label' =
                                 [b \in 1..B |-> MaskLabel(lens[b], x_sample_dim * dr,
                                                           rnd.chosen[b])]
                            /\ attn_mask' = [b \in 1..B |-> AttnMask(lens[b])]
                            /\ outcome' = IF Stackable(mask_label') THEN "returned"
                                          ELSE "ValueError"
    /\ UNCHANGED <<dr, mask_proportion, x_sample_dim>>

IdlePipeline ==
    /\ spec = NoTensor
    /\ outcome = "idle"
    /\ spec_stacked = NoTensor
    /\ spec_len = <<>>
    /\ chosen_index = <<>>
    /\ spec_masked = <<>>
    /\ mask_label = <<>>
    /\ attn_mask = <<>>

InitPipeline ==
    /\ dr \in 1..MaxDr
    /\ mask_proportion \in MaskProps
    /\ x_sample_dim \in 1..MaxFeat
    /\ IdlePipeline

\* ------------------------------------------------------------- set_model
\* (len(self.dataloader) // self.gradient_accumulation_steps) * self.total_epoch
NumTrainOptimizationSteps(nb, gas, epochs) == (nb \div gas) * epochs

NoBatch ==
    [epoch |-> -1, step |-> -1, update |-> FALSE, nan |-> FALSE, stepped |-> FALSE,
     cleared |-> FALSE, warned |-> FALSE, gs |-> 0, grads |-> 0]

\* the Trainer after __init__, load_data and set_model
InitTrainer ==
    /\ gradient_accumulation_steps \in 1..MaxGas
    /\ total_epoch \in 1..MaxEpochs
    /\ num_batches \in 1..MaxBatches
    /\ apex \in BOOLEAN
    /\ verbose \in BOOLEAN
    /\ num_train_optimization_steps =
         NumTrainOptimizationSteps(num_batches, gradient_accumulation_steps, total_epoch)
    /\ pc = "ready"
    /\ epoch = 0
    /\ step = 0
    /\ global_step = 0
    /\ accum = 0
    /\ opt_steps = 0
    /\ zero_grads = 0
    /\ lr_sets = 0
    /\ nan_msgs = 0
    /\ epoch_updates = 0
    /\ epoch_start_gs = 0
    /\ last = NoBatch

\* ------------------------------------------------------------------- exec
\* variant: if (step + 1) % self.gradient_accumulation_steps == 0
UpdateGate_Next(s, gas) == (s + 1) % gas = 0

\* if step % self.gradient_accumulation_steps == 0
UpdateGate(s, gas) == s % gas = 0

\* variant: self.optimizer.step() outside the else
StepInvoked_Always(nan) == TRUE

\* if math.isnan(grad_norm): verbose(...) else: self.optimizer.step()
StepInvoked(nan) == ~nan

\* Solver.verbose prints when self.paras.verbose
Printed(flag) == flag

\* what the call of process_MAM_data in exec can end with
PipelineOutcomes == {"returned", "AssertionError", "ValueError"}

\* self.global_step = 1, before the first epoch
ExecStart ==
    /\ pc = "ready"
    /\ pc' = "loop"
    /\ global_step' = InitialGlobalStep
    /\ UNCHANGED <<epoch, step, accum, opt_steps, zero_grads, lr_sets, nan_msgs,
                   epoch_updates, epoch_start_gs, last>>
    /\ UNCHANGED <<cfgvars, mamvars>>

\* one iteration of the batch loop, with the loop headers that follow it
ExecBatch ==
    /\ pc = "loop"
    /\ \E res \in PipelineOutcomes :
        IF res # "returned"
        THEN /\ pc' = "raised"
             /\ UNCHANGED <<epoch, step, global_step, accum, opt_steps, zero_grads,
                            lr_sets, nan_msgs, epoch_updates, epoch_start_gs, last>>
        ELSE \E isnan \in BOOLEAN :
            LET upd == UpdateGate(step, gradient_accumulation_steps)
                nan == upd /\ isnan
                grads == accum + 1
                stepped == upd /\ StepInvoked(nan)
                warned == nan /\ Printed(verbose)
            IN /\ accum' = IF upd THEN 0 ELSE grads
               /\ lr_sets' = IF upd /\ apex THEN lr_sets + 1 ELSE lr_sets
               /\ opt_steps' = IF stepped THEN opt_steps + 1 ELSE opt_steps
               /\ nan_msgs' = IF warned THEN nan_msgs + 1 ELSE nan_msgs
               /\ zero_grads' = IF upd THEN zero_grads + 1 ELSE zero_grads
               /\ global_step' = IF upd THEN global_step + 1 ELSE global_step
               /\ epoch_updates' = (IF step = 0 THEN 0 ELSE epoch_updates)
                                   + (IF upd THEN 1 ELSE 0)
               /\ epoch_start_gs' = IF step = 0 THEN global_step ELSE epoch_start_gs
               /\ last' = [epoch |-> epoch, step |-> step, update |-> upd, nan |-> nan,
                           stepped |-> stepped, cleared |-> upd, warned |-> warned,
                           gs |-> global_step, grads |-> grads]
               /\ IF step + 1 < num_batches
                  THEN step' = step + 1 /\ epoch' = epoch /\ pc' = "loop"
                  ELSE IF epoch + 1 < total_epoch
                       THEN step' = 0 /\ epoch' = epoch + 1 /\ pc' = "loop"
                       ELSE step' = step /\ epoch' = epoch /\ pc' = "done"
    /\ UNCHANGED <<cfgvars, mamvars>>

\* ---------------------------------------------------------- specifications
\* the training loop; the pipeline's variables stay idle
Init ==
    /\ InitTrainer
    /\ dr = 1
    /\ mask_proportion = <<1, 2>>
    /\ x_sample_dim = 1
    /\ IdlePipeline

Next == ExecStart \/ ExecBatch

Spec == Init /\ [][Next]_vars

\* calls of process_MAM_data on any batch; the loop's variables stay put
InitMAM ==
    /\ InitPipeline
    /\ InitTrainer
    /\ gradient_accumulation_steps = 1
    /\ total_epoch = 1
    /\ num_batches = 1
    /\ apex = FALSE
    /\ verbose = FALSE

NextMAM == ProcessMAMData /\ UNCHANGED <<cfgvars, execvars>>

SpecMAM == InitMAM /\ [][NextMAM]_vars

\* ------------------------------------------------------------ properties
MaxChosen == 40

Processed == outcome \in {"returned", "ValueError"}
Utterances == 1..Len(chosen_index)
ZeroRow(width) == [j \in 1..width |-> 0]

\* the input of down_sample_frames in the call: spec without its leading dimension
RawBatch == [shape |-> Tail(spec.shape), data |-> spec.data]

\* row i (0-based) of utterance b (1-based) of the target y
TargetRow(b, i) ==
    [j \in 1..spec_stacked.shape[3] |-> At3(spec_stacked, b - 1, i, j - 1)]

\* the zeroed group of utterance b: the first floor(0.8*k) chosen indices
ZeroedGroup(b) ==
    {chosen_index[b][q] : q \in 1..((Len(chosen_index[b]) * 8) \div 10)}

\* C1: a batch that exec processes is an update event (gradients cleared, global_step
\* raised by one, NaN or not) exactly when step % gradient_accumulation_steps = 0, and
\* leaves global_step alone otherwise; global_step starts at 1; an epoch of n batches
\* holds (n-1) \div gas + 1 updates: 3 for 9 batches and gas = 4, at steps 0, 4, 8.
C1_BatchStep ==
    (pc = "loop" /\ pc' # "raised") =>
        LET upd == (step % gradient_accumulation_steps = 0)
            d == IF upd THEN 1 ELSE 0
        IN /\ zero_grads' = zero_grads + d
           /\ global_step' = global_step + d
           /\ last'.update = upd
           /\ global_step = InitialGlobalStep + zero_grads
           /\ (step = num_batches - 1) =>
                /\ epoch_updates' = ((num_batches - 1) \div gradient_accumulation_steps) + 1
                /\ global_step' - epoch_start_gs' = epoch_updates'
           /\ (gradient_accumulation_steps = 4 /\ num_batches = 9) =>
                /\ upd <=> step \in {0, 4, 8}
                /\ (step = 8 => global_step' - epoch_start_gs' = 3)
C1_UpdateGate == [][C1_BatchStep]_vars

C1_Witness ==
    /\ gradient_accumulation_steps = 4
    /\ num_batches = 9
    /\ last.epoch = 1
    /\ last.step = 8
    /\ last.update
    /\ epoch_updates = 3
    /\ global_step = 7
    /\ opt_steps < zero_grads

\* C2 as written: at an update whose gradient norm is NaN, optimizer.step() is not
\* called, a warning is recorded, zero_grad() is called and the loop goes on.
C2_NaNWarningRecorded ==
    last.nan => (~last.stepped /\ last.warned /\ last.cleared /\ pc # "raised")

\* C2 amended: at an update whose gradient norm is NaN the parameters keep their
\* version, gradients are cleared, global_step rises, the loop moves to the next batch
\* (or ends after the last one), and the message is printed exactly when
\* paras.verbose is set.
C2_BatchStep ==
    (pc = "loop" /\ pc' # "raised" /\ last'.nan) =>
        /\ opt_steps' = opt_steps
        /\ zero_grads' = zero_grads + 1
        /\ accum' = 0
        /\ global_step' = global_step + 1
        /\ nan_msgs' = nan_msgs + (IF verbose THEN 1 ELSE 0)
        /\ \/ pc' = "loop" /\ <<epoch', step'>> \in {<<epoch, step + 1>>, <<epoch + 1, 0>>}
           \/ pc' = "done" /\ step = num_batches - 1 /\ epoch = total_epoch - 1
C2_NaNSkipsStep == [][C2_BatchStep]_vars

C2_Witness ==
    /\ last.nan
    /\ ~last.stepped
    /\ last.cleared
    /\ ~verbose
    /\ nan_msgs = 0
    /\ pc = "loop"
    /\ opt_steps = 1
    /\ zero_grads = 2

\* C3: for an utterance of valid length L the chosen list holds floor(L*p) indices,
\* all different, all in [0, L); L = 5 and p = 1/2 give 2.
C3_ChosenSet ==
    Processed =>
        \A b \in Utterances :
            LET L == spec_len[b]
                c == chosen_index[b]
            IN /\ Len(c) = (L * mask_proportion[1]) \div mask_proportion[2]
               /\ \A q, r \in 1..Len(c) : q # r => c[q] # c[r]
               /\ \A q \in 1..Len(c) : 0 <= c[q] /\ c[q] < L
               /\ (L = 5 /\ mask_proportion = <<1, 2>>) => Len(c) = 2

C3_Witness ==
    /\ outcome = "returned"
    /\ mask_proportion = <<1, 2>>
    /\ \E b \in Utterances : spec_len[b] = 5 /\ Len(chosen_index[b]) = 2

\* C4: the rows of the masked input at the zeroed group are all zeros, and the target
\* y still holds the stacked raw frames there.
C4_ZeroedNonDestructive ==
    Processed =>
        \A b \in Utterances : \A i \in ZeroedGroup(b) :
            LET D == RawBatch.shape[3]
            IN /\ spec_masked[b].rows[i + 1] = ZeroRow(spec_stacked.shape[3])
               /\ \A j \in 0..(spec_stacked.shape[3] - 1) :
                    At3(spec_stacked, b - 1, i, j)
                        = At3(RawBatch, b - 1, (i * dr) + (j \div D), j % D)

C4_Witness ==
    /\ outcome = "returned"
    /\ \E b \in Utterances : \E i \in ZeroedGroup(b) :
        /\ TargetRow(b, i) # ZeroRow(spec_stacked.shape[3])
        /\ spec_masked[b].rows[i + 1] = ZeroRow(spec_stacked.shape[3])

\* C5: the label mask is 1 on the rows of the chosen indices, 0 elsewhere, and has
\* the shape of the utterance's masked input and target.
C5_LabelMaskShape ==
    Processed =>
        \A b \in Utterances :
            /\ \A i \in 1..Len(mask_label[b].rows) : \A j \in 1..Len(mask_label[b].rows[i]) :
                 mask_label[b].rows[i][j] =
                     IF (i - 1) \in Range(chosen_index[b]) THEN 1 ELSE 0
            /\ mask_label[b].shape = spec_masked[b].shape
            /\ mask_label[b].shape = <<spec_stacked.shape[2], spec_stacked.shape[3]>>

\* C6: down_sample_frames gives shape (batch, raw_time \div dr, feature_dim * dr);
\* its time step t is raw frames t*dr .. t*dr+dr-1 in order; the raw frames from
\* raw_time - raw_time % dr on are in no time step.
C6_DownSample ==
    Processed =>
        LET B == RawBatch.shape[1]
            T == RawBatch.shape[2]
            D == RawBatch.shape[3]
        IN /\ spec_stacked.shape = <<B, T \div dr, D * dr>>
           /\ Len(spec_stacked.data) = B * (T - (T % dr)) * D
           /\ \A b \in 0..(B - 1) : \A t \in 0..((T \div dr) - 1) :
                \A f \in 0..(dr - 1) : \A e \in 0..(D - 1) :
                    /\ (t * dr) + f < T - (T % dr)
                    /\ At3(spec_stacked, b, t, (f * D) + e)
                         = At3(RawBatch, b, (t * dr) + f, e)

C6_Witness ==
    /\ Processed
    /\ dr = 2
    /\ RawBatch.shape = <<2, 3, 1>>
    /\ spec_stacked.shape = <<2, 1, 2>>
    /\ RawBatch.data = <<1, 0, 1, 0, 1, 0>>
    /\ spec_stacked.data = <<1, 0, 0, 1>>

\* C7 as written: a 3-D batch is processed without an error.
C7_AcceptsThreeDims ==
    (outcome # "idle" /\ Len(spec.shape) = 3) => Processed

\* C7 amended: only a 4-D batch (1, batch, raw_time, feature_dim) passes the shape
\* assertion; its leading dimension is squeezed before downsampling; a 3-D batch
\* ends in an AssertionError and no output is made.
C7_FourDimsOnly ==
    outcome # "idle" =>
        /\ (outcome = "AssertionError") <=> (Len(spec.shape) # 4)
        /\ Len(spec.shape) = 4 =>
             /\ Processed
             /\ spec_stacked.shape
                  = <<spec.shape[2], spec.shape[3] \div dr, spec.shape[4] * dr>>
        /\ Len(spec.shape) = 3 =>
             /\ spec_stacked = NoTensor
             /\ spec_masked = <<>>
             /\ mask_label = <<>>

C7_Witness ==
    /\ outcome = "AssertionError"
    /\ spec.shape = <<2, 3, 1>>
    /\ spec.data = <<1, 1, 1, 1, 1, 1>>
    /\ spec_stacked = NoTensor

C9_FullGroup ==
    last.update => last.grads = gradient_accumulation_steps

\* C10: the update events never outnumber the planned total of set_model, and
\* global_step at an update is at most that total.
C10_WithinPlan ==
    /\ zero_grads <= num_train_optimization_steps
    /\ last.update => last.gs <= num_train_optimization_steps

====
